---- MODULE Spec2Model ----
(***************************************************************************)
(* Model of scripts/run_scripts.py: the harness that runs every script of  *)
(* a scripts document over its sweep points, mines stdout / stderr with    *)
(* named regular expressions and appends one row per execution to a CSV    *)
(* report.  Python str values are TLA+ strings; None is a tagged record.   *)
(***************************************************************************)
EXTENDS Integers, Sequences, FiniteSets, TLC

VARIABLES
    scripts,              \* scripts_data["scripts"]: the list of script dicts
    result_patterns,      \* patterns_data["result_patterns"], in document order
    error_patterns,       \* patterns_data["error_patterns"], in document order
    pc,                   \* position of main(): "open", "loop", "wait" (blocked in
                          \* subprocess.run), "done", "raised"; "parse" and
                          \* "parsed" when parse_output is applied on its own
    si,                   \* index of the script the outer loop is at (1-based)
    ei,                   \* index of the next entry of extra_arguments_list
    extra_arguments_keys, \* the set built at lines 88-92
    header,               \* the list built at line 94
    csvfile,              \* the rows handed to csv_writer.writerow, in order
    environ,              \* os.environ of the harness process
    launches,             \* the subprocess.run calls made so far, in order
    returned,             \* for each row of csvfile after the header, the
                          \* (script index, sweep index) whose execution fed it
    exits,                \* what the children that have exited did, in order
    capture,              \* parse_output on its own: the text a group captures
    parsed                \* parse_output on its own: the dict it returns

vars == <<scripts, result_patterns, error_patterns, pc, si, ei,
          extra_arguments_keys, header, csvfile, environ, launches, returned,
          exits, capture, parsed>>

----------------------------------------------------------------------------
(* Bounds of the model.                                                    *)

MaxScripts == 2

\* the longest fraction of a decimal capture
MaxFrac == 3

----------------------------------------------------------------------------
(* Python str: code points, comparison, truthiness.                        *)

Digits == "0123456789"
Upper == "ABCDEFGHIJKLMNOPQRSTUVWXYZ"
Lower == "abcdefghijklmnopqrstuvwxyz"

CharAt(s, i) == SubSeq(s, i, i)

IndexIn(c, table) == CHOOSE i \in 1..Len(table) : CharAt(table, i) = c

IsIn(c, table) == \E i \in 1..Len(table) : CharAt(table, i) = c

IsDigit(c) == IsIn(c, Digits)

\* ord(c) for the characters the configurations below use
Ord(c) ==
    IF IsIn(c, Digits) THEN 47 + IndexIn(c, Digits)
    ELSE IF IsIn(c, Upper) THEN 64 + IndexIn(c, Upper)
    ELSE IF IsIn(c, Lower) THEN 96 + IndexIn(c, Lower)
    ELSE IF c = "\n" THEN 10
    ELSE IF c = " " THEN 32
    ELSE IF c = "-" THEN 45
    ELSE IF c = "." THEN 46
    ELSE IF c = ":" THEN 58
    ELSE IF c = "=" THEN 61
    ELSE 95

RECURSIVE StrLess(_, _)
\* a < b on str: lexicographic on code points, a proper prefix is smaller
StrLess(a, b) ==
    IF Len(b) = 0 THEN FALSE
    ELSE IF Len(a) = 0 THEN TRUE
    ELSE IF Ord(CharAt(a, 1)) # Ord(CharAt(b, 1))
         THEN Ord(CharAt(a, 1)) < Ord(CharAt(b, 1))
    ELSE StrLess(SubSeq(a, 2, Len(a)), SubSeq(b, 2, Len(b)))

RECURSIVE Descending(_)
\* a mutation of sorted(): the comparison is the wrong way round
Descending(S) ==
    IF S = {} THEN <<>>
    ELSE LET m == CHOOSE x \in S : \A y \in S \ {x} : StrLess(y, x)
         IN  <<m>> \o Descending(S \ {m})

RECURSIVE sorted(_)
\* sorted(S) of a set of str: ascending list
sorted(S) ==
    IF S = {} THEN <<>>
    ELSE LET m == CHOOSE x \in S : \A y \in S \ {x} : StrLess(x, y)
         IN  <<m>> \o sorted(S \ {m})

Range(s) == {s[i] : i \in 1..Len(s)}

----------------------------------------------------------------------------
(* str <-> number, as float(), round(x, 2) and str() compute them for a    *)
(* capture of the form digits '.' digits (below 10^7, non-exponent repr).  *)

RECURSIVE StrToInt(_)
StrToInt(s) ==
    IF Len(s) = 0 THEN 0
    ELSE 10 * StrToInt(SubSeq(s, 1, Len(s) - 1)) + (IndexIn(CharAt(s, Len(s)), Digits) - 1)

RECURSIVE IntToStr(_)
IntToStr(n) ==
    IF n < 10 THEN CharAt(Digits, n + 1)
    ELSE IntToStr(n \div 10) \o CharAt(Digits, (n % 10) + 1)

RECURSIVE StripZeros(_)
\* the digits of a fraction without its trailing zeros
StripZeros(s) ==
    IF Len(s) > 0 /\ CharAt(s, Len(s)) = "0" THEN StripZeros(SubSeq(s, 1, Len(s) - 1))
    ELSE s

RECURSIVE Pow2Mod(_, _)
Pow2Mod(k, m) == IF k = 0 THEN 1 % m ELSE (2 * Pow2Mod(k - 1, m)) % m

RECURSIVE Log2Floor(_)
Log2Floor(n) == IF n < 2 THEN 0 ELSE 1 + Log2Floor(n \div 2)

\* what float() reads of a str that ends in a newline: surrounding white space
\* is ignored
StripNewline(value) ==
    IF Len(value) > 0 /\ CharAt(value, Len(value)) = "\n"
    THEN SubSeq(value, 1, Len(value) - 1)
    ELSE value

\* re.match(r'^\d+\.\d+$', value): $ matches at the end of the str and also
\* just before a newline that ends it
IsDecimalForm(value) ==
    LET v == StripNewline(value) IN
    \E d \in 2..(Len(v) - 1) :
        /\ CharAt(v, d) = "."
        /\ \A i \in (1..Len(v)) \ {d} : IsDigit(CharAt(v, i))

DotAt(value) == CHOOSE d \in 1..Len(value) : CharAt(value, d) = "."

\* The sign of float(v) - v for v = n / 1000 > 0: the binary64 nearest to v
\* is M / 2^s with s = 52 - floor(log2 v); the remainder of n * 2^s modulo
\* 1000 against 500 says where M lies.  0: v is a binary64, 1: above, -1: below
\* (a remainder of exactly 500 needs s <= 2, that is v >= 2^50)
FloatError(n) ==
    LET e == IF n >= 1000 THEN Log2Floor(n \div 1000)
             ELSE 0 - (CHOOSE t \in 1..10 : /\ n * Pow2Mod(t, 2048) >= 1000
                                            /\ n * Pow2Mod(t - 1, 2048) < 1000)
        s == 52 - e
        rem == ((n % 1000) * Pow2Mod(s, 1000)) % 1000
    IN  IF rem = 0 THEN 0 ELSE IF rem > 500 THEN 1 ELSE 0 - 1

\* a mutation of line 53: a 5 in the third decimal always rounds up
RoundedHalfUp(value) ==
    LET d  == DotAt(value)
        ip == StrToInt(SubSeq(value, 1, d - 1))
        fr == SubSeq(value, d + 1, Len(value)) \o "000"
    IN  100 * ip + StrToInt(SubSeq(fr, 1, 2))
        + (IF Ord(CharAt(fr, 3)) >= Ord("5") THEN 1 ELSE 0)

\* The hundredths of round(float(value), 2): correctly rounded from the
\* binary64 value, an exact tie going to the even neighbour
RoundedHundredths(value) ==
    LET d  == DotAt(value)
        ip == StrToInt(SubSeq(value, 1, d - 1))
        fr == StripZeros(SubSeq(value, d + 1, Len(value)))
        f  == Len(fr)
        two == SubSeq(fr \o "00", 1, 2)
        h0 == 100 * ip + StrToInt(two)
        rest == SubSeq(fr, 3, f)
    IN  IF f <= 2 THEN h0
        ELSE IF rest # "5" THEN
                 (IF Ord(CharAt(rest, 1)) >= Ord("5") THEN h0 + 1 ELSE h0)
        ELSE LET err == FloatError(10 * h0 + 5)
             IN  IF err > 0 THEN h0 + 1
                 ELSE IF err < 0 THEN h0
                 ELSE IF h0 % 2 = 0 THEN h0 ELSE h0 + 1

\* str(x) of a float with at most two decimals: shortest repr
FloatStr(h) ==
    LET ip == h \div 100
        fr == h % 100
    IN  IntToStr(ip) \o "." \o
        (IF fr % 10 = 0 THEN IntToStr(fr \div 10)
         ELSE IntToStr(fr \div 10) \o IntToStr(fr % 10))

\* lines 52-53: value = str(round(float(value), 2)) for a decimal capture
Normalize(value) ==
    IF IsDecimalForm(value) THEN FloatStr(RoundedHundredths(StripNewline(value)))
    ELSE value

----------------------------------------------------------------------------
(* re.search for the patterns of the configurations: a pattern is a        *)
(* literal prefix followed by one capturing group: "any" is dot-star,      *)
(* "digits" is \d+, "decimal" is \d+\.\d+, "rest" is [\s\S]* (all that    *)
(* follows, newlines included)                                             *)

StartsWith(text, i, prefix) ==
    /\ i + Len(prefix) - 1 <= Len(text)
    /\ SubSeq(text, i, i + Len(prefix) - 1) = prefix

\* last index of the longest run of digits starting at j (j - 1 if none)
DigitRunEnd(text, j) ==
    CHOOSE k \in (j - 1)..Len(text) :
        /\ \A m \in j..k : IsDigit(CharAt(text, m))
        /\ k = Len(text) \/ ~IsDigit(CharAt(text, k + 1))

\* last index of the run of characters other than newline starting at j
LineEnd(text, j) ==
    CHOOSE k \in (j - 1)..Len(text) :
        /\ \A m \in j..k : CharAt(text, m) # "\n"
        /\ k = Len(text) \/ CharAt(text, k + 1) = "\n"

\* the group's capture when the pattern matches at position i, else no match
MatchAt(pattern, text, i) ==
    LET j == i + Len(pattern.prefix) IN
    IF ~StartsWith(text, i, pattern.prefix) THEN [matched |-> FALSE, group |-> ""]
    ELSE IF pattern.group = "any"
         THEN [matched |-> TRUE, group |-> SubSeq(text, j, LineEnd(text, j))]
    ELSE IF pattern.group = "rest"
         THEN [matched |-> TRUE, group |-> SubSeq(text, j, Len(text))]
    ELSE LET k == DigitRunEnd(text, j) IN
         IF k < j THEN [matched |-> FALSE, group |-> ""]
         ELSE IF pattern.group = "digits"
              THEN [matched |-> TRUE, group |-> SubSeq(text, j, k)]
         ELSE LET k2 == IF k + 1 <= Len(text) /\ CharAt(text, k + 1) = "."
                        THEN DigitRunEnd(text, k + 2) ELSE 0
              IN  IF k2 >= k + 2
                  THEN [matched |-> TRUE, group |-> SubSeq(text, j, k2)]
                  ELSE [matched |-> FALSE, group |-> ""]

\* re.search(pattern, output): the leftmost match
re_search(pattern, text) ==
    LET hits == {i \in 1..(Len(text) + 1) : MatchAt(pattern, text, i).matched}
    IN  IF hits = {} THEN [matched |-> FALSE, group |-> ""]
        ELSE MatchAt(pattern, text, CHOOSE i \in hits : \A h \in hits : i <= h)

RECURSIVE parse_output(_, _)
\* lines 46-55: the dict of the matching patterns, in pattern order (a dict
\* keeps insertion order), as a list of (name, value) items
parse_output(output, patterns) ==
    IF patterns = <<>> THEN <<>>
    ELSE LET m == re_search(Head(patterns), output)
             rest == parse_output(output, Tail(patterns))
         IN  IF m.matched
             THEN <<[name |-> Head(patterns).name, value |-> Normalize(m.group)]>> \o rest
             ELSE rest

\* a mutation of lines 141-142: the lookup ignores the pattern name
DictGetFirst(items, name) == IF items = <<>> THEN "" ELSE items[1].value

\* result_dict.get(pattern_name, "")
DictGet(items, name) ==
    IF \E i \in 1..Len(items) : items[i].name = name
    THEN items[CHOOSE i \in 1..Len(items) : items[i].name = name].value
    ELSE ""

----------------------------------------------------------------------------
(* The documents the harness is run on.  A script is a dict that may lack  *)
(* any of its keys; an entry of extra_arguments is a dict, kept as its     *)
(* list of items in insertion order.                                       *)

Item(k, v) == [key |-> k, value |-> v]

Bench1 ==
    [name |-> "bench1", path |-> "bench.py",
     default_arguments |-> <<"--mode", "fast">>,
     extra_arguments |-> << <<Item("threads", "4"), Item("batch", "")>>,
                            <<Item("threads", "4"), Item("batch", "")>> >>,
     env |-> ("OMP" :> "1")]

Bench2 ==
    [name |-> "bench2", path |-> "other.py", default_arguments |-> <<"run">>]

Bench3 ==
    [name |-> "bench3", path |-> "other.py",
     default_arguments |-> <<"run">>,
     extra_arguments |-> << <<Item("Threads", "8")>> >>,
     env |-> ("OMP" :> "2")]

Bare ==
    [name |-> "bare", path |-> "bench.py",
     default_arguments |-> <<"x">>,
     extra_arguments |-> << <<Item("batch", "8")>> >>,
     env |-> <<>>]

NoDefaults ==
    [name |-> "nodef", path |-> "bench.py",
     extra_arguments |-> << <<Item("warmup", "1")>> >>,
     env |-> ("DBG" :> "1")]

EmptyDefaults ==
    [name |-> "bench1", path |-> "bench.py",
     default_arguments |-> <<>>,
     extra_arguments |-> <<>>]

ScriptPool == {Bench1, Bench2, Bench3, Bare, NoDefaults, EmptyDefaults}

ScriptLists == UNION {[1..n -> ScriptPool] : n \in 0..MaxScripts}

Pattern(n, p, g) == [name |-> n, prefix |-> p, group |-> g]

PatternDocs ==
    { [result_patterns |-> <<Pattern("latency", "latency=", "decimal"),
                             Pattern("acc", "acc=", "any")>>,
       error_patterns  |-> <<Pattern("oom", "OOM: ", "any"),
                             Pattern("warn", "WARN: ", "any")>>],
      [other |-> <<>>] }

\* What the child process of one subprocess.run call does: it cannot be
\* started, or it runs, writes its two streams and exits
Child(l, rc, out, err) == [launched |-> l, returncode |-> rc, stdout |-> out, stderr |-> err]

Outcomes ==
    { Child(TRUE, 0, "latency=10.456\nacc=42\n", ""),
      Child(TRUE, 0, "latency=5.2\n", "WARN: slow\n"),
      Child(TRUE, 1, "latency=10.456\n", "WARN: slow\nOOM: out of memory\n"),
      Child(TRUE, 1, "", ""),
      Child(TRUE, 2, "", "Traceback\n"),
      Child(FALSE, 0, "", "") }

\* The texts parse_output is given a capture of, when it is taken on its
\* own: decimals of up to MaxFrac fraction digits, decimals that end in a
\* newline, and texts that are not decimals
RECURSIVE DigitStrings(_)
DigitStrings(n) ==
    IF n = 0 THEN {""}
    ELSE {s \o CharAt(Digits, i) : s \in DigitStrings(n - 1), i \in 1..Len(Digits)}

IntegerParts == {"0", "1", "2", "12", "07"}

DecimalCaptures ==
    {ip \o "." \o fr : ip \in IntegerParts,
                        fr \in UNION {DigitStrings(n) : n \in 1..MaxFrac}}

LineCaptures == {"12.345\n", "5.20\n", "2.5\n"}

OtherCaptures ==
    {"", "42", "abc", "1.", ".5", "-1.5", "1e3", "1.2.3", "12.345 ms", "1.5\n\n", "42\n"}

Captures == DecimalCaptures \cup LineCaptures \cup OtherCaptures

\* d.get(k, default) on a dict modelled as a record
Get(d, k, default) == IF k \in DOMAIN d THEN d[k] ELSE default

\* extra_arguments.keys() and extra_arguments.get(key, "") on a list of items
Keys(items) == {items[i].key : i \in 1..Len(items)}

ItemGet(items, k) ==
    IF k \in Keys(items)
    THEN items[CHOOSE i \in 1..Len(items) : items[i].key = k].value
    ELSE ""

\* Python None, and the truth value of an optional str
None == [none |-> TRUE, text |-> ""]
Str(t) == [none |-> FALSE, text |-> t]
Truthy(o) == ~o.none /\ Len(o.text) > 0

----------------------------------------------------------------------------
(* run_script_with_args, lines 22-32.                                      *)

\* a mutation of line 26: os.environ.setdefault(key, value)
SetEnvironDefault(osenv, env) ==
    [v \in DOMAIN osenv \cup DOMAIN env |->
        IF v \in DOMAIN osenv THEN osenv[v] ELSE env[v]]

\* lines 24-26: os.environ[key] = value for every item of env
SetEnviron(osenv, env) ==
    [v \in DOMAIN osenv \cup DOMAIN env |->
        IF v \in DOMAIN env THEN env[v] ELSE osenv[v]]

\* The call's result: the environment it leaves, whether it raised out of
\* the function, and the (output, error) pair it returns otherwise
run_script_with_args(osenv, script_path, args, env, child) ==
    LET after == SetEnviron(osenv, env) IN
    IF ~child.launched
        \* subprocess.run raises OSError: only CalledProcessError is caught
        THEN [environ |-> after, raised |-> TRUE, output |-> None, error |-> None]
    ELSE IF child.returncode = 0
        THEN [environ |-> after, raised |-> FALSE,
              output |-> Str(child.stdout), error |-> Str(child.stderr)]
    ELSE [environ |-> after, raised |-> FALSE,
          output |-> None, error |-> Str(child.stderr)]

\* the subprocess.run call of line 28 as the operating system sees it
Launch(s, k, osenv, script_path, args, env, ok) ==
    [script |-> s, point |-> k,
     argv |-> <<"python", script_path>> \o args,
     env |-> SetEnviron(osenv, env),
     started |-> ok]

----------------------------------------------------------------------------
(* main, lines 59-178.                                                     *)

RECURSIVE JoinSemi(_)
\* "; ".join(f"{name}: {message}" for name, message in error_messages.items())
JoinSemi(items) ==
    IF items = <<>> THEN ""
    ELSE Head(items).name \o ": " \o Head(items).value
         \o (IF Len(items) > 1 THEN "; " \o JoinSemi(Tail(items)) ELSE "")

\* names of a pattern dict, in order: result_patterns.keys()
Names(patterns) == [i \in 1..Len(patterns) |-> patterns[i].name]

\* lines 90-92: the keys of one script's extra argument sets
ScriptKeys(script) ==
    LET extra_arguments_list == Get(script, "extra_arguments", <<>>)
    IN  UNION { Keys(extra_arguments_list[j]) : j \in 1..Len(extra_arguments_list) }

\* a mutation of lines 88-92: only the first script is inspected
FirstScriptKeys(ss) == IF Len(ss) = 0 THEN {} ELSE ScriptKeys(ss[1])

\* lines 88-92
AllKeys(ss) == UNION { ScriptKeys(ss[i]) : i \in 1..Len(ss) }

\* line 94
Header(keys, rp) == <<"Model">> \o sorted(keys) \o Names(rp) \o <<"Error">>

\* a mutation of lines 125-127: the value is appended even when it is empty
RECURSIVE ExpandAlways(_, _)
ExpandAlways(arguments, items) ==
    IF items = <<>> THEN arguments
    ELSE ExpandAlways(arguments \o <<"--" \o Head(items).key, Head(items).value>>,
                      Tail(items))

\* lines 123-127: the argument vector of one sweep point
RECURSIVE Expand(_, _)
Expand(arguments, items) ==
    IF items = <<>> THEN arguments
    ELSE Expand(arguments \o <<"--" \o Head(items).key>>
                          \o (IF Head(items).value # "" THEN <<Head(items).value>> ELSE <<>>),
                Tail(items))

\* line 130
ExtraArgumentsRow(extra_arguments, keys) ==
    LET ks == sorted(keys) IN [i \in 1..Len(ks) |-> ItemGet(extra_arguments, ks[i])]

\* lines 137-142 and 162-167: the result columns
ResultColumns(output, rp) ==
    IF Truthy(output)
    THEN LET result_dict == parse_output(output.text, rp)
         IN  [i \in 1..Len(rp) |-> DictGet(result_dict, rp[i].name)]
    ELSE [i \in 1..Len(rp) |-> ""]

\* lines 145-150 and 170-175: the error column; extend("") appends nothing
ErrorColumns(error, ep) ==
    IF Truthy(error) THEN <<JoinSemi(parse_output(error.text, ep))>>
    ELSE <<>>

\* os.environ when the harness starts
Ambient == ("LANG" :> "C")

Init ==
    /\ scripts \in ScriptLists
    /\ \E doc \in PatternDocs :
          /\ result_patterns = Get(doc, "result_patterns", <<>>)
          /\ error_patterns = Get(doc, "error_patterns", <<>>)
    /\ pc = "open"
    /\ si = 1
    /\ ei = 1
    /\ extra_arguments_keys = {}
    /\ header = <<>>
    /\ csvfile = <<>>
    /\ environ = Ambient
    /\ launches = <<>>
    /\ returned = <<>>
    /\ exits = <<>>
    /\ capture = ""
    /\ parsed = <<>>

\* lines 87-97: open the report, compute the keys and write the header
WriteHeader ==
    /\ pc = "open"
    /\ extra_arguments_keys' = AllKeys(scripts)
    /\ header' = Header(AllKeys(scripts), result_patterns)
    /\ csvfile' = <<Header(AllKeys(scripts), result_patterns)>>
    /\ pc' = "loop"
    /\ UNCHANGED <<scripts, result_patterns, error_patterns, si, ei, environ,
                   launches, returned, exits, capture, parsed>>

\* the script the loop of line 99 is at
Cur == scripts[si]
DefaultArguments == Get(Cur, "default_arguments", <<>>)
ExtraArgumentsList == Get(Cur, "extra_arguments", <<>>)

\* a mutation of lines 115-117: the configuration error ends the run
SkipAborts ==
    /\ pc = "loop"
    /\ si <= Len(scripts)
    /\ DefaultArguments = <<>>
    /\ pc' = "raised"
    /\ UNCHANGED <<scripts, result_patterns, error_patterns, si, ei,
                   extra_arguments_keys, header, csvfile, environ, launches, returned,
                   exits, capture, parsed>>

\* lines 115-117: no default arguments, warn and continue
SkipScript ==
    /\ pc = "loop"
    /\ si <= Len(scripts)
    /\ DefaultArguments = <<>>
    /\ si' = si + 1
    /\ ei' = 1
    /\ UNCHANGED <<scripts, result_patterns, error_patterns, pc,
                   extra_arguments_keys, header, csvfile, environ, launches, returned,
                   exits, capture, parsed>>

\* a mutation of writerow: a row equal to one already written is dropped
WriteRowDedup(file, row) ==
    IF \E n \in 2..Len(file) : file[n] = row THEN file ELSE Append(file, row)

\* a mutation of writerow: the newest row goes right under the header
WriteRowFront(file, row) == <<file[1], row>> \o SubSeq(file, 2, Len(file))

\* lines 153 and 178: csv_writer.writerow(result_row)
WriteRow(file, row) == Append(file, row)

\* a mutation of line 160: one blank too few
BlankColumnsShort(keys) == [i \in 1..(Cardinality(keys) - 1) |-> ""]

\* line 160: [""] * len(extra_arguments_keys)
BlankColumns(keys) == [i \in 1..Cardinality(keys) |-> ""]

\* a mutation of line 28: the child is started and not waited for
AfterLaunchNoWait(ok) == IF ok THEN "loop" ELSE "raised"

\* line 28: subprocess.run blocks until the child has exited; when the
\* child cannot be started it raises OSError, which nothing catches
AfterLaunch(ok) == IF ok THEN "wait" ELSE "raised"

\* a mutation of line 123: arguments is the script's own list, not a copy
DefaultsAliased(default_arguments, arguments) == arguments

\* lines 123 and 156: the script's default_arguments list once arguments is
\* built: line 123 appends to a copy of it, line 156 appends nothing to it
DefaultsAfter(default_arguments, arguments) == default_arguments

\* lines 134 / 159 down to line 28: the overlay goes into os.environ and
\* the child is started
StartChild(k, arguments) ==
    /\ environ' = SetEnviron(environ, Get(Cur, "env", <<>>))
    /\ scripts' = [scripts EXCEPT ![si].default_arguments =
                       DefaultsAfter(Cur.default_arguments, arguments)]
    /\ \E ok \in {c.launched : c \in Outcomes} :
          /\ launches' = Append(launches,
                                Launch(si, k, environ, Get(Cur, "path", ""), arguments,
                                       Get(Cur, "env", <<>>), ok))
          /\ pc' = AfterLaunch(ok)
    /\ UNCHANGED <<result_patterns, error_patterns, si, ei, extra_arguments_keys,
                   header, csvfile, returned, exits, capture, parsed>>

\* lines 120-134: one iteration of the loop over extra_arguments_list, up
\* to the start of its child
RunSweepPoint ==
    /\ pc = "loop"
    /\ si <= Len(scripts)
    /\ DefaultArguments # <<>>
    /\ ExtraArgumentsList # <<>>
    /\ ei <= Len(ExtraArgumentsList)
    /\ StartChild(ei, Expand(DefaultArguments, ExtraArgumentsList[ei]))

\* lines 154-159: no extra arguments, one run with the default arguments
RunDefault ==
    /\ pc = "loop"
    /\ si <= Len(scripts)
    /\ DefaultArguments # <<>>
    /\ ExtraArgumentsList = <<>>
    /\ StartChild(0, DefaultArguments)

\* lines 28-32 and 135-153 / 160-178: the child exits, run_script_with_args
\* returns, the row is built and written, the loop moves on
ChildExits ==
    /\ pc = "wait"
    /\ \E child \in {c \in Outcomes : c.launched} :
          LET call == launches[Len(launches)]
              k == call.point
              r == run_script_with_args(environ, Get(Cur, "path", ""),
                                        SubSeq(call.argv, 3, Len(call.argv)),
                                        Get(Cur, "env", <<>>), child)
              extra_arguments_row ==
                  IF k = 0 THEN BlankColumns(extra_arguments_keys)
                  ELSE ExtraArgumentsRow(ExtraArgumentsList[k], extra_arguments_keys)
              result_row == <<Get(Cur, "name", "")>> \o extra_arguments_row
                            \o ResultColumns(r.output, result_patterns)
                            \o ErrorColumns(r.error, error_patterns)
              last == k = 0 \/ k = Len(ExtraArgumentsList)
          IN  /\ environ' = r.environ
              /\ exits' = Append(exits, child)
              /\ csvfile' = WriteRow(csvfile, result_row)
              /\ returned' = Append(returned, <<si, k>>)
              /\ pc' = "loop"
              /\ si' = IF last THEN si + 1 ELSE si
              /\ ei' = IF last THEN 1 ELSE ei + 1
    /\ UNCHANGED <<scripts, result_patterns, error_patterns, extra_arguments_keys,
                   header, launches, capture, parsed>>

\* the loop of line 99 is exhausted: the report is closed, main returns
Finish ==
    /\ pc = "loop"
    /\ si > Len(scripts)
    /\ pc' = "done"
    /\ UNCHANGED <<scripts, result_patterns, error_patterns, si, ei,
                   extra_arguments_keys, header, csvfile, environ, launches, returned,
                   exits, capture, parsed>>

Next ==
    \/ WriteHeader
    \/ SkipScript
    \/ RunSweepPoint
    \/ RunDefault
    \/ ChildExits
    \/ Finish

Spec == Init /\ [][Next]_vars

----------------------------------------------------------------------------
(* parse_output on its own, lines 35-55: one pattern whose group captures  *)
(* the text that follows "v=".                                             *)

NormInit ==
    /\ capture \in Captures
    /\ parsed = <<>>
    /\ pc = "parse"
    /\ scripts = <<>>
    /\ result_patterns = <<Pattern("v", "v=", "rest")>>
    /\ error_patterns = <<>>
    /\ si = 1
    /\ ei = 1
    /\ extra_arguments_keys = {}
    /\ header = <<>>
    /\ csvfile = <<>>
    /\ environ = Ambient
    /\ launches = <<>>
    /\ returned = <<>>
    /\ exits = <<>>

ParseCapture ==
    /\ pc = "parse"
    /\ parsed' = parse_output("v=" \o capture, result_patterns)
    /\ pc' = "parsed"
    /\ UNCHANGED <<scripts, result_patterns, error_patterns, si, ei,
                   extra_arguments_keys, header, csvfile, environ, launches,
                   returned, exits, capture>>

NormNext == ParseCapture

NormSpec == NormInit /\ [][NormNext]_vars

----------------------------------------------------------------------------
(* The properties of the report.                                           *)

Executed(i) == Get(scripts[i], "default_arguments", <<>>) # <<>>
Extra(i) == Get(scripts[i], "extra_arguments", <<>>)
NameOf(i) == Get(scripts[i], "name", "")
RowsOf(i) == {n \in 1..Len(returned) : returned[n][1] = i}
LaunchesOf(i) == {m \in 1..Len(launches) : launches[m].script = i}
Row(n) == csvfile[n + 1]
Written == pc # "open"
RowsAligned == Len(csvfile) = 1 + Len(returned)

\* the launches whose child process ran, in order: row n comes from the n-th
RECURSIVE Started(_)
Started(ls) ==
    IF ls = <<>> THEN <<>>
    ELSE (IF Head(ls).started THEN <<Head(ls)>> ELSE <<>>) \o Started(Tail(ls))

\* C1: every row written to the report has exactly as many fields as the
\* header row, whatever the exit status, stderr and pattern matches were.
C1_RowWidthIsHeaderWidth ==
    \A n \in 2..Len(csvfile) : Len(csvfile[n]) = Len(csvfile[1])

NoArguments(i) == Get(scripts[i], "default_arguments", <<>>) = <<>>

\* C4: a script without default arguments (key missing or list empty) is
\* never launched and has no row, whatever its extra arguments; passing it
\* does not end the run: the loop moves to the next script with the report
\* as it was, and a finished run has written the report.
C4_SkippedScript ==
    /\ [](\A i \in 1..Len(scripts) :
            NoArguments(i) => (LaunchesOf(i) = {} /\ RowsOf(i) = {}))
    /\ [](pc = "done" => (Len(csvfile) >= 1 /\ csvfile[1] = header))
    /\ [][(pc = "loop" /\ si <= Len(scripts) /\ NoArguments(si)) =>
            (pc' = "loop" /\ si' = si + 1 /\ csvfile' = csvfile /\ launches' = launches)]_vars

C4_Witness ==
    /\ pc = "done"
    /\ \E i \in 1..Len(scripts) : \E j \in 1..Len(scripts) :
          /\ i < j
          /\ NoArguments(i)
          /\ Len(Extra(i)) >= 1
          /\ RowsOf(j) # {}

\* C5: a sweep point whose execution exits non-zero still produces exactly
\* one row, and that row has its Error column filled in.
C5_FailedRunHasErrorColumn ==
    (Written /\ RowsAligned) =>
        \A n \in 1..Len(returned) :
            exits[n].returncode # 0 => Len(Row(n)) = Len(header)

\* C6: no execution ends the run: run_script_with_args never raises, and a
\* child that cannot be started gives a row like a non-zero exit does, so
\* every launch attempt has its row.
C6_LaunchFailureIsARow ==
    /\ pc # "raised"
    /\ (Written /\ pc # "wait") => Len(csvfile) = 1 + Len(launches)

\* C7: when run_script_with_args has returned, os.environ is what it was
\* before the call, so every child sees only the ambient variables and the
\* variables of its own script's env.
C7_EnvironmentRestored ==
    /\ pc \in {"loop", "done"} => environ = Ambient
    /\ \A m \in 1..Len(launches) :
          DOMAIN launches[m].env
              \subseteq (DOMAIN Ambient \cup DOMAIN Get(scripts[launches[m].script], "env", <<>>))

\* the keys of the extra argument sets of all scripts, said without AllKeys
UnionOfKeys ==
    {k \in {"Threads", "batch", "threads", "warmup"} :
        \E i \in 1..Len(scripts) : \E j \in 1..Len(Extra(i)) :
            \E x \in 1..Len(Extra(i)[j]) : Extra(i)[j][x].key = k}

\* C8: the header is "Model", then the union of the extra-argument keys of
\* all scripts (skipped ones included) in ascending order without
\* duplicates, then the result pattern names in configured order, then
\* "Error".
C8_HeaderSchema ==
    Written =>
    LET K == Cardinality(UnionOfKeys)
        R == Len(result_patterns)
    IN  /\ csvfile[1] = header
        /\ Len(header) = K + R + 2
        /\ header[1] = "Model"
        /\ header[Len(header)] = "Error"
        /\ {header[c] : c \in 2..(K + 1)} = UnionOfKeys
        /\ \A c \in 2..K : StrLess(header[c], header[c + 1])
        /\ \A r \in 1..R : header[K + 1 + r] = result_patterns[r].name

C8_Witness ==
    /\ Written
    /\ Len(result_patterns) = 2
    /\ Cardinality(UnionOfKeys) >= 3
    /\ \E i \in 1..Len(scripts) :
          NoArguments(i) /\ \E c \in 1..Len(header) : header[c] = "warmup"

\* C9: the header is written once, before any launch and any row; from then
\* on the header and the set of dynamic columns never change, and every key
\* of every sweep point that is run is one of those columns.
C9_HeaderFixedBeforeRuns ==
    /\ [](pc = "open" => (launches = <<>> /\ csvfile = <<>> /\ returned = <<>>))
    /\ [](Written =>
            /\ csvfile[1] = header
            /\ RowsAligned
            /\ \A m \in 1..Len(launches) :
                  launches[m].point >= 1 =>
                      \A k \in Keys(Extra(launches[m].script)[launches[m].point]) :
                          /\ k \in extra_arguments_keys
                          /\ \E c \in 2..(1 + Cardinality(extra_arguments_keys)) :
                                header[c] = k)
    /\ [][Written =>
            /\ header' = header
            /\ extra_arguments_keys' = extra_arguments_keys
            /\ csvfile'[1] = csvfile[1]]_vars

C9_Witness ==
    /\ pc = "done"
    /\ Len(launches) >= 3
    /\ \E m \in 1..Len(launches) : launches[m].point >= 1

\* the value the sweep point of row n gives column c of the header
DynamicValue(n, c) ==
    IF returned[n][2] = 0 THEN ""
    ELSE LET items == Extra(returned[n][1])[returned[n][2]]
         IN  IF \E x \in 1..Len(items) : items[x].key = header[c]
             THEN items[CHOOSE x \in 1..Len(items) : items[x].key = header[c]].value
             ELSE ""

\* C10: the rows are in execution order, which is configuration order:
\* script by script, and sweep point by sweep point within a script; no row
\* is moved, dropped as a duplicate or merged with another.
C10_RowsInConfigurationOrder ==
    Written =>
    /\ RowsAligned
    /\ Len(returned) = Len(exits)
    /\ Len(returned) = Len(Started(launches)) - (IF pc = "wait" THEN 1 ELSE 0)
    /\ \A n \in 1..Len(returned) :
          /\ returned[n] = <<Started(launches)[n].script, Started(launches)[n].point>>
          /\ Row(n)[1] = NameOf(returned[n][1])
          /\ \A c \in 2..(1 + Cardinality(extra_arguments_keys)) :
                Row(n)[c] = DynamicValue(n, c)
    /\ \A a \in 1..Len(returned) : \A b \in 1..Len(returned) :
          a < b =>
              \/ returned[a][1] < returned[b][1]
              \/ returned[a][1] = returned[b][1] /\ returned[a][2] < returned[b][2]

C10_Witness ==
    /\ pc = "done"
    /\ Len(returned) >= 3
    /\ \E a \in 1..Len(returned) : \E b \in 1..Len(returned) :
          /\ a < b
          /\ Row(a) = Row(b)
          /\ returned[a][1] = returned[b][1]
    /\ \E a \in 1..Len(returned) : returned[a][1] # returned[1][1]

----------------------------------------------------------------------------
(* The content of a row.                                                   *)

NKeys == Cardinality(extra_arguments_keys)

\* C11: the row of an execution that exited non-zero has every result
\* column empty, whatever stdout held, and its Error field is the "; "-joined
\* "name: message" of exactly the error patterns that match stderr, in
\* configured order.
C11_FailedRunRow ==
    (Written /\ RowsAligned) =>
        \A n \in 1..Len(returned) :
            exits[n].returncode # 0 =>
                /\ \A r \in 1..Len(result_patterns) : Row(n)[1 + NKeys + r] = ""
                /\ Len(Row(n)) = Len(header)
                /\ Row(n)[Len(header)]
                       = JoinSemi(parse_output(exits[n].stderr, error_patterns))

\* C12: the row of an execution that exited with status zero has an empty
\* Error field, whatever the child wrote to standard error (said of the rows
\* that have an Error field at all).
C12_NoErrorNoText ==
    (Written /\ RowsAligned) =>
        \A n \in 1..Len(returned) :
            (exits[n].returncode = 0 /\ Len(Row(n)) = Len(header)) =>
                Row(n)[Len(header)] = ""

\* the rows a finished run owes: one per sweep point of every script with
\* default arguments, one for such a script without sweep points
RowsOwed(i) ==
    IF ~Executed(i) THEN 0
    ELSE IF Extra(i) = <<>> THEN 1
    ELSE Len(Extra(i))

\* the steps main takes by itself; the remaining one, ChildExits, is the
\* child's to take
MainStep == WriteHeader \/ SkipScript \/ RunSweepPoint \/ RunDefault \/ Finish

\* the run under its scheduling: main is one thread that takes its next step
\* whenever it has one, and every child that was started exits, so main is
\* never left waiting in subprocess.run for ever
FairSpec == Spec /\ WF_vars(MainStep) /\ []<>(pc # "wait")

\* C13: once the configuration is loaded and as long as every child that is
\* started exits, the run eventually completes: main returns, every script is
\* done, and the report holds the header and all the rows, failed executions
\* included.
C13_RunCompletes ==
    <>(/\ pc = "done"
       /\ si = Len(scripts) + 1
       /\ csvfile[1] = header
       /\ \A i \in 1..Len(scripts) : Cardinality(RowsOf(i)) = RowsOwed(i))

----------------------------------------------------------------------------
(* The argument vector.                                                    *)

\* what launch m passed after "python" and the script path
ArgsOf(m) == SubSeq(launches[m].argv, 3, Len(launches[m].argv))

\* the number of tokens the first x - 1 pairs of a sweep point contribute:
\* a flag each, and a value for those whose value is not empty
TokensBefore(items, x) ==
    (x - 1) + Cardinality({y \in 1..(x - 1) : items[y].value # ""})

\* C14: the argument vector of a sweep point is default_arguments, then for
\* each key/value pair in iteration order the token "--<key>" and the value
\* as a token of its own, a pair with an empty value giving the flag only;
\* nothing else is in the vector.
C14_SweepPointArguments ==
    \A m \in 1..Len(launches) :
        launches[m].point >= 1 =>
            LET d == scripts[launches[m].script].default_arguments
                items == Extra(launches[m].script)[launches[m].point]
                args == ArgsOf(m)
            IN  /\ launches[m].argv[1] = "python"
                /\ launches[m].argv[2] = Get(scripts[launches[m].script], "path", "")
                /\ Len(args) = Len(d) + TokensBefore(items, Len(items) + 1)
                /\ SubSeq(args, 1, Len(d)) = d
                /\ \A x \in 1..Len(items) :
                      /\ args[Len(d) + TokensBefore(items, x) + 1] = "--" \o items[x].key
                      /\ items[x].value # "" =>
                            args[Len(d) + TokensBefore(items, x) + 2] = items[x].value

C14_Witness ==
    \E m \in 1..Len(launches) :
        /\ launches[m].point >= 1
        /\ launches[m].started
        /\ LET items == Extra(launches[m].script)[launches[m].point]
           IN  /\ Len(items) >= 2
               /\ items[1].value # ""
               /\ items[Len(items)].value = ""
               /\ StrLess(items[Len(items)].key, items[1].key)

----------------------------------------------------------------------------
(* The dynamic and the result columns.                                     *)

\* what result pattern r captured in the output the n-th execution returned:
\* a child that exited non-zero returns no output, so nothing matches there
ResultValue(n, r) ==
    LET m == re_search(result_patterns[r], exits[n].stdout)
    IN  IF exits[n].returncode = 0 /\ m.matched THEN Normalize(m.group) ELSE ""

\* C15: in every row, each dynamic-argument column holds the value the row's
\* sweep point gives that key, or "" when it has no such key; each result
\* column holds the normalized capture of its pattern on the returned output,
\* or "" when the pattern did not match; a pattern that does not match leaves
\* the Model field, the other columns and the width up to the Error field as
\* they are.
C15_ColumnContents ==
    (Written /\ RowsAligned /\ Len(returned) = Len(exits)) =>
        \A n \in 1..Len(returned) :
            /\ Len(Row(n)) >= 1 + NKeys + Len(result_patterns)
            /\ Row(n)[1] = NameOf(returned[n][1])
            /\ \A c \in 2..(1 + NKeys) : Row(n)[c] = DynamicValue(n, c)
            /\ \A r \in 1..Len(result_patterns) :
                  Row(n)[1 + NKeys + r] = ResultValue(n, r)

C15_Witness ==
    /\ pc = "done"
    /\ Len(result_patterns) = 2
    /\ \E n \in 1..Len(returned) :
          /\ exits[n].returncode = 0
          /\ returned[n][2] >= 1
          /\ Row(n)[1 + NKeys + 1] = "5.2"
          /\ Row(n)[1 + NKeys + 2] = ""
          /\ \E c \in 2..(1 + NKeys) : Row(n)[c] = ""
          /\ \E c \in 2..(1 + NKeys) : Row(n)[c] = "8"
    /\ \E n \in 1..Len(returned) :
          /\ Row(n)[1 + NKeys + 1] = "10.46"
          /\ Row(n)[1 + NKeys + 2] = "42"

----------------------------------------------------------------------------
(* The normalization of a capture.                                         *)

RECURSIVE Pow10(_)
Pow10(f) == IF f = 0 THEN 1 ELSE 10 * Pow10(f - 1)

Abs(x) == IF x < 0 THEN 0 - x ELSE x

\* a decimal text as a fraction: its digits as one integer, and the number
\* of digits after the point
DigitsValue(text) ==
    StrToInt(SubSeq(text, 1, DotAt(text) - 1)) * Pow10(Len(text) - DotAt(text))
        + StrToInt(SubSeq(text, DotAt(text) + 1, Len(text)))

FracLen(text) == Len(text) - DotAt(text)

\* the hundredths a text with one or two fraction digits stands for
HundredthsOf(text) ==
    (DigitsValue(text) * 100) \div Pow10(FracLen(text))

\* the text is the shortest decimal of its value with a fraction digit: no
\* leading zero, one or two fraction digits, no trailing zero in the second
ShortestForm(text) ==
    /\ \E d \in 2..(Len(text) - 1) :
          /\ CharAt(text, d) = "."
          /\ \A i \in (1..Len(text)) \ {d} : IsDigit(CharAt(text, i))
          /\ d = 2 \/ CharAt(text, 1) # "0"
    /\ FracLen(text) \in {1, 2}
    /\ FracLen(text) = 2 => CharAt(text, Len(text)) # "0"

\* the capture less the newline that ends it
Body(text) == IF text \in LineCaptures THEN SubSeq(text, 1, Len(text) - 1) ELSE text

----------------------------------------------------------------------------
(* The order of the executions.                                            *)

\* the child processes that were started and have not exited
InFlight == Len(Started(launches)) - Len(exits)

\* C17: execution is strictly sequential: at most one child is in flight at
\* any time, and only while main is blocked in subprocess.run; a child is
\* launched only when every child before it has exited and has its row, so
\* the rows never lag the completed executions by more than one.
C17_StrictlySequential ==
    /\ [](/\ InFlight \in {0, 1}
          /\ InFlight = 1 <=> pc = "wait")
    /\ [](Written =>
            /\ Len(exits) - (Len(csvfile) - 1) \in {0, 1}
            /\ Len(csvfile) - 1 = Len(returned))
    /\ [][Len(launches') > Len(launches) =>
            /\ Len(launches') = Len(launches) + 1
            /\ InFlight = 0
            /\ Len(csvfile) - 1 = Len(exits)
            /\ csvfile' = csvfile]_vars

C17_Witness ==
    /\ pc = "wait"
    /\ InFlight = 1
    /\ Len(exits) >= 2
    /\ Len(csvfile) = 1 + Len(exits)

----------------------------------------------------------------------------
(* The environment of the children.                                        *)

EnvOf(i) == Get(scripts[i], "env", <<>>)

\* C18: the environment of every child of a script holds each variable of
\* the script's env with the value the script gives it, also when a script
\* run before it set the variable to another value.
C18_ChildSeesOwnEnv ==
    \A m \in 1..Len(launches) :
        \A v \in DOMAIN EnvOf(launches[m].script) :
            /\ v \in DOMAIN launches[m].env
            /\ launches[m].env[v] = EnvOf(launches[m].script)[v]

C18_Witness ==
    \E a \in 1..Len(launches) : \E b \in 1..Len(launches) :
        /\ a < b
        /\ launches[a].started
        /\ launches[b].started
        /\ \E v \in DOMAIN EnvOf(launches[a].script) \cap DOMAIN EnvOf(launches[b].script) :
              /\ EnvOf(launches[a].script)[v] # EnvOf(launches[b].script)[v]
              /\ launches[b].env[v] = EnvOf(launches[b].script)[v]

----------------------------------------------------------------------------
(* The frame of a run.                                                     *)

\* C19: the run never modifies a script's default_arguments (nor anything
\* else of the scripts document): the argument vector of every execution
\* starts with default_arguments as configured and holds after it the tokens
\* of its own sweep point only, so two executions of the same sweep point
\* values get the same vector, however many sweep points ran before.
C19_DefaultArgumentsUntouched ==
    /\ [][scripts' = scripts]_vars
    /\ [](\A m \in 1..Len(launches) :
            LET d == scripts[launches[m].script].default_arguments
            IN  /\ Len(ArgsOf(m)) >= Len(d)
                /\ SubSeq(ArgsOf(m), 1, Len(d)) = d
                /\ launches[m].point = 0 => ArgsOf(m) = d
                /\ launches[m].point >= 1 =>
                      Len(ArgsOf(m)) <= Len(d)
                          + 2 * Len(Extra(launches[m].script)[launches[m].point]))
    /\ [](\A a \in 1..Len(launches) : \A b \in 1..Len(launches) :
            (/\ scripts[launches[a].script] = scripts[launches[b].script]
             /\ launches[a].point >= 1
             /\ launches[b].point >= 1
             /\ Extra(launches[a].script)[launches[a].point]
                    = Extra(launches[b].script)[launches[b].point])
                => launches[a].argv = launches[b].argv)

C19_Witness ==
    \E a \in 1..Len(launches) : \E b \in 1..Len(launches) : \E c \in 1..Len(launches) :
        /\ a < b
        /\ b < c
        /\ launches[a].script = launches[b].script
        /\ launches[a].point = 1
        /\ launches[b].point = 2
        /\ launches[a].argv = launches[b].argv
        /\ Len(launches[a].argv) > 2 + Len(scripts[launches[a].script].default_arguments)
        /\ launches[c].script # launches[a].script
        /\ launches[c].point = 0

====
